---- MODULE Spec2Model ----
(***************************************************************************)
(* papi-try: every rank of an MPI job runs main(): it parses its command   *)
(* line, arms a SIGALRM watchdog, drives one PAPI event set around a       *)
(* memory-touching workload (doit/runops), reports the counters, meets its *)
(* peers at MPI_Barrier and finalizes.                                     *)
(*                                                                         *)
(* One rank is one process of the model.  proc[p] holds the process's      *)
(* globals (myrank, g), the locals of the frame it is in, its position pc, *)
(* and a record of what it has done so far (the library calls it made, the *)
(* lines it printed, how it left).  argv is the command line, the same for *)
(* every rank of the job; barrier is the set of ranks that have entered    *)
(* MPI_Barrier(MPI_COMM_WORLD).                                            *)
(*                                                                         *)
(* Library behaviour the source relies on:                                 *)
(*   - MPI_Finalize() and exit() act on the calling process only;          *)
(*   - MPI_Barrier() returns once every rank of the job has entered it;    *)
(*   - alarm(0) arms nothing; alarm(s), s > 0, delivers one SIGALRM after  *)
(*     s seconds, at whatever point the process has then reached;          *)
(*   - every PAPI call and MPI_Init/MPI_Comm_rank/MPI_Comm_size may fail.  *)
(* Time is kept as one bit per process: expired = "g.timeout seconds have  *)
(* passed since alarm() was called".                                       *)
(***************************************************************************)
EXTENDS Integers, Sequences, FiniteSets, TLC

VARIABLES argv, proc, barrier

vars == <<argv, proc, barrier>>

(* ------------------------------ constants ------------------------------ *)

MAX_EVENTS == 16

DEF_TIMEOUT == 120

EXIT_FAILURE == 1

WORKLOAD_BYTES == 1048576

DefaultNames == <<"PAPI_L1_DCM", "PAPI_L1_DCA", "PAPI_L2_DCM", "PAPI_L2_DCA">>

(* bounds of the model *)
MaxWorld == 2

MaxArgc == 17

(* the ranks a job may have, and those of this job *)
Ranks == 0 .. (MaxWorld - 1)

World == 0 .. (argv.world - 1)

(* the C arrays names[], tmp[], value[] *)
Slots == 0 .. (MAX_EVENTS - 1)

(* -------------------------- the PAPI registry -------------------------- *)

(* preset table of the counter library: name -> event code *)
PresetCode ==
  ("PAPI_L1_DCM" :> 1) @@ ("PAPI_L1_DCA" :> 2) @@ ("PAPI_L2_DCM" :> 3) @@
  ("PAPI_L2_DCA" :> 4) @@ ("PAPI_TOT_INS" :> 5)

(* the lookup as it would be if it took any name for an event *)
PAPI_event_name_to_code_any(name) ==
  [rv |-> "PAPI_OK",
   code |-> IF name \in DOMAIN PresetCode THEN PresetCode[name] ELSE 0]

(* PAPI_event_name_to_code: PAPI_OK and the code, or an error *)
PAPI_event_name_to_code(name) ==
  IF name \in DOMAIN PresetCode
    THEN [rv |-> "PAPI_OK", code |-> PresetCode[name]]
    ELSE [rv |-> "PAPI_ENOEVNT", code |-> 0]

(* what a PAPI call can return *)
PapiResults == {"PAPI_OK", "PAPI_ERR"}

(* ------------------------------- inputs -------------------------------- *)

(* option lists given to getopt("t:"): -t <n>, or an option it rejects *)
OptLists ==
  {<<>>} \cup {<<[ch |-> "t", arg |-> t]>> : t \in {-5, 0, 5}}
         \cup {<<[ch |-> "?", arg |-> 0]>>}

(* positional event names *)
ShortLists ==
  {<<>>, <<"PAPI_TOT_INS">>, <<"BAD_EVENT_NAME">>,
   <<"PAPI_L2_DCM", "PAPI_TOT_INS">>, <<"PAPI_TOT_INS", "BAD_EVENT_NAME">>}

LongLists == {[i \in 1 .. k |-> "PAPI_TOT_INS"] : k \in (MAX_EVENTS - 1) .. MaxArgc}

(* ----------------------------- initial state --------------------------- *)

(* static storage is zero: myrank = 0, g = {0}; nothing done yet *)
InitProc ==
  [pc |-> "MPI_Init", myrank |-> 0,
   size |-> 0, timeout |-> 0, names |-> [i \in Slots |-> "NULL"], n |-> 0,
   optind |-> 1, i |-> 0, tmp |-> <<>>, value |-> <<>>,
   es |-> "Uncreated", calls |-> <<>>, out |-> <<>>, err |-> <<>>,
   handler |-> FALSE, alarm |-> "none", expired |-> FALSE, inTime |-> FALSE,
   fin |-> 0, ret |-> 0, exited |-> FALSE, code |-> 0, path |-> "none",
   stage |-> "none", reported |-> FALSE,
   bufs |-> 0, allocFailed |-> FALSE, work |-> <<>>, added |-> <<>>,
   passed |-> FALSE, oob |-> {}]

(* jobs of every size with one event, with and without a watchdog; jobs   *)
(* of one and two ranks with every option and short event list; one rank  *)
(* with an event list about as long as names[]                            *)
Init ==
  /\ \/ argv \in [world : 1 .. MaxWorld,
                   opts : {<<>>, <<[ch |-> "t", arg |-> 0]>>},
                   pos : {<<"PAPI_TOT_INS">>, <<"BAD_EVENT_NAME">>}]
     \/ argv \in [world : {1, 2}, opts : OptLists, pos : ShortLists]
     \/ argv \in [world : {1}, opts : {<<>>}, pos : LongLists]
  /\ proc = [p \in Ranks |-> InitProc]
  /\ barrier = {}

(* ------------------------------- helpers ------------------------------- *)

Set(p, r) == proc' = [proc EXCEPT ![p] = r]

At(p, label) == p \in World /\ ~proc[p].exited /\ proc[p].pc = label

(* MPI_Finalize(), by the process whose record is r *)
MPI_Finalize(r) == [r EXCEPT !.fin = @ + 1]

(* exit(status): the process is gone, how it left is remembered *)
exit(r, status, how) ==
  [r EXCEPT !.exited = TRUE, !.code = status, !.path = how, !.pc = "exited"]

(* vcomplain as it would be if it went to exit(ret) without MPI_Finalize *)
vcomplain_exits_at_once(r, ret, r0only, msg, cont) ==
  LET printed == IF ~r0only \/ r.myrank = 0 THEN Append(r.err, msg) ELSE r.err
  IN IF ret # 0
       THEN [r EXCEPT !.err = printed, !.ret = ret, !.pc = "vcomplain_exit"]
       ELSE [cont EXCEPT !.err = printed]

(* vcomplain: print (unless r0only on a rank other than 0); with ret # 0   *)
(* MPI_Finalize and then exit(ret); else return, and the caller goes on as *)
(* cont, the record it would have had without the complaint                *)
vcomplain(r, ret, r0only, msg, cont) ==
  LET printed == IF ~r0only \/ r.myrank = 0 THEN Append(r.err, msg) ELSE r.err
  IN IF ret # 0
       THEN [MPI_Finalize(r) EXCEPT !.err = printed, !.ret = ret,
                                    !.pc = "vcomplain_exit"]
       ELSE [cont EXCEPT !.err = printed]

(* complain as it would be if every message were for rank 0 alone *)
complain_rank0_only(r, ret, r0only, msg, cont) == vcomplain(r, ret, TRUE, msg, cont)

complain(r, ret, r0only, msg, cont) == vcomplain(r, ret, r0only, msg, cont)

(* PAPI_complain as it would be with a zero exit status: it returns *)
PAPI_complain_returns(r, err, msg, cont) ==
  complain(r, 0, FALSE, <<"PAPI", msg, err>>, cont)

PAPI_complain(r, err, msg, cont) ==
  complain(r, EXIT_FAILURE, FALSE, <<"PAPI", msg, err>>, cont)

(* usage: rank 0 prints, every rank finalizes and exits 1 *)
usage(r, msg) ==
  LET printed == IF r.myrank # 0 THEN r
                 ELSE [r EXCEPT !.err = Append(@, <<"usage", msg>>)]
  IN [MPI_Finalize(printed) EXCEPT !.pc = "usage_exit"]

(* alarm as it would be if zero seconds scheduled a signal too *)
alarm_always(r, seconds) ==
  [r EXCEPT !.alarm = "pending", !.expired = (seconds = 0)]

(* alarm(seconds): a pending SIGALRM replaces any earlier one; alarm(0)    *)
(* only cancels.  Zero seconds have passed at once.                        *)
alarm(r, seconds) ==
  [r EXCEPT !.alarm = IF seconds > 0 THEN "pending" ELSE "none",
            !.expired = (seconds = 0)]

(* the handler as it would be without its exit(1): it returns *)
sigalarm_returns(r) ==
  MPI_Finalize([r EXCEPT !.err = Append(@, <<"SIGALRM detected", "Alarm clock">>),
                         !.stage = r.pc])

(* the handler: two lines on stderr, MPI_Finalize, exit(1).  stage keeps   *)
(* the point the signal interrupted.                                       *)
sigalarm(r) ==
  exit(MPI_Finalize([r EXCEPT !.err = Append(@, <<"SIGALRM detected", "Alarm clock">>),
                              !.stage = r.pc]),
       1, "sigalarm")

(* a counter-group call, as the library sees it *)
Call(r, op, rv) == [r EXCEPT !.calls = Append(@, [op |-> op, rv |-> rv])]

(* the count the hardware holds for an event *)
CounterValue(code) == code * 1000

(* an out-of-bounds store is undefined: the process goes on, or dies *)
Undefined(p, r) ==
  \/ Set(p, r)
  \/ Set(p, exit(r, 139, "crash"))

(* --------------------------------- main -------------------------------- *)

MPI_Init(p) ==
  /\ At(p, "MPI_Init")
  /\ \E ok \in BOOLEAN :
       Set(p, IF ok THEN [proc[p] EXCEPT !.pc = "MPI_Comm_rank"]
              ELSE complain(proc[p], EXIT_FAILURE, TRUE,
                            <<"MPI_Init failed.  MPI is required.">>,
                            [proc[p] EXCEPT !.pc = "MPI_Comm_rank"]))
  /\ UNCHANGED <<argv, barrier>>

MPI_Comm_rank(p) ==
  /\ At(p, "MPI_Comm_rank")
  /\ \E ok \in BOOLEAN :
       LET got == [proc[p] EXCEPT !.myrank = IF ok THEN p ELSE @,
                                  !.pc = "MPI_Comm_size"]
       IN Set(p, IF ok THEN got
                 ELSE complain(proc[p], EXIT_FAILURE, FALSE,
                               <<"unable to get MPI rank">>, got))
  /\ UNCHANGED <<argv, barrier>>

(* MPI_Comm_size, then the defaults: timeout, the four names, n = 4 *)
MPI_Comm_size(p) ==
  /\ At(p, "MPI_Comm_size")
  /\ \E ok \in BOOLEAN :
       LET got == [proc[p] EXCEPT
                     !.size = IF ok THEN argv.world ELSE @,
                     !.timeout = DEF_TIMEOUT,
                     !.names = [i \in Slots |->
                                  IF i < Len(DefaultNames) THEN DefaultNames[i + 1]
                                  ELSE @[i]],
                     !.n = Len(DefaultNames), !.pc = "getopt"]
       IN Set(p, IF ok THEN got
                 ELSE complain(proc[p], EXIT_FAILURE, FALSE,
                               <<"unable to get MPI size">>, got))
  /\ UNCHANGED <<argv, barrier>>

(* the getopt loop as it would be without the check of the timeout's sign *)
getopt_unchecked(p) ==
  /\ At(p, "getopt")
  /\ LET r == proc[p]
         opt == argv.opts[r.optind]
     IN Set(p, IF r.optind > Len(argv.opts)
                 THEN [r EXCEPT !.pc = "positional"]
               ELSE IF opt.ch = "t"
                 THEN [r EXCEPT !.timeout = opt.arg, !.optind = @ + 1]
               ELSE usage(r, "NULL"))
  /\ UNCHANGED <<argv, barrier>>

(* one turn of the getopt loop *)
getopt(p) ==
  /\ At(p, "getopt")
  /\ LET r == proc[p]
         opt == argv.opts[r.optind]
     IN Set(p, IF r.optind > Len(argv.opts)
                 THEN [r EXCEPT !.pc = "positional"]
               ELSE IF opt.ch = "t"
                 THEN IF opt.arg < 0
                        THEN usage([r EXCEPT !.timeout = opt.arg], "bad timeout")
                        ELSE [r EXCEPT !.timeout = opt.arg, !.optind = @ + 1]
               ELSE usage(r, "NULL"))
  /\ UNCHANGED <<argv, barrier>>

(* positional arguments replace the names; nothing bounds argc *)
positional(p) ==
  /\ At(p, "positional")
  /\ LET r == proc[p]
         argc == Len(argv.pos)
         over == {<<"names", i>> : i \in MAX_EVENTS .. (argc - 1)}
         r2 == IF argc # 0
                 THEN [r EXCEPT !.names = [i \in Slots |->
                                             IF i < argc THEN argv.pos[i + 1] ELSE @[i]],
                                !.n = argc, !.oob = @ \cup over]
                 ELSE r
         r3 == [r2 EXCEPT !.pc = "banner"]
     IN IF over = {} THEN Set(p, r3) ELSE Undefined(p, r3)
  /\ UNCHANGED <<argv, barrier>>

(* rank 0 prints the event list and the options *)
banner(p) ==
  /\ At(p, "banner")
  /\ LET r == proc[p]
     IN Set(p, [r EXCEPT !.out = IF r.myrank = 0
                                   THEN Append(@, <<"banner", r.n, r.size, r.timeout>>)
                                   ELSE @,
                         !.pc = "alarm"])
  /\ UNCHANGED <<argv, barrier>>

(* signal(SIGALRM, sigalarm); alarm(g.timeout) *)
arm(p) ==
  /\ At(p, "alarm")
  /\ LET r == proc[p]
     IN Set(p, [alarm([r EXCEPT !.handler = TRUE], r.timeout)
                  EXCEPT !.pc = "PAPI_library_init"])
  /\ UNCHANGED <<argv, barrier>>

(* SIGALRM is delivered: g.timeout seconds have passed, the handler runs   *)
(* to its exit (SIGALRM is blocked meanwhile and no second alarm is set)   *)
SIGALRM(p) ==
  /\ p \in World /\ ~proc[p].exited
  /\ proc[p].alarm = "pending" /\ proc[p].handler
  /\ Set(p, sigalarm([proc[p] EXCEPT !.alarm = "fired", !.expired = TRUE]))
  /\ UNCHANGED <<argv, barrier>>

(* --------------------------------- doit -------------------------------- *)

PAPI_library_init(p) ==
  /\ At(p, "PAPI_library_init")
  /\ \E rv \in PapiResults :
       LET r == Call(proc[p], "library_init", rv)
       IN Set(p, IF rv = "PAPI_OK" THEN [r EXCEPT !.pc = "PAPI_thread_init"]
                 ELSE complain(r, EXIT_FAILURE, FALSE, <<"PAPI Init failed">>,
                               [r EXCEPT !.pc = "PAPI_thread_init"]))
  /\ UNCHANGED <<argv, barrier>>

PAPI_thread_init(p) ==
  /\ At(p, "PAPI_thread_init")
  /\ \E rv \in PapiResults :
       LET r == Call(proc[p], "thread_init", rv)
       IN Set(p, IF rv = "PAPI_OK" THEN [r EXCEPT !.pc = "PAPI_create_eventset"]
                 ELSE PAPI_complain(r, rv, "thread init",
                                    [r EXCEPT !.pc = "PAPI_create_eventset"]))
  /\ UNCHANGED <<argv, barrier>>

PAPI_create_eventset(p) ==
  /\ At(p, "PAPI_create_eventset")
  /\ \E rv \in PapiResults :
       LET r == Call(proc[p], "create", rv)
       IN Set(p, IF rv = "PAPI_OK"
                   THEN [r EXCEPT !.es = "Created", !.i = 0, !.pc = "PAPI_prepare"]
                   ELSE PAPI_complain(r, rv, "create event set",
                                      [r EXCEPT !.i = 0, !.pc = "PAPI_prepare"]))
  /\ UNCHANGED <<argv, barrier>>

(* one turn of the loop of PAPI_prepare: resolve g.names[i] into tmp[i].   *)
(* Past the arrays' end the name read and the store are undefined.         *)
PAPI_prepare(p) ==
  /\ At(p, "PAPI_prepare")
  /\ LET r == proc[p]
     IN IF r.i >= r.n
          THEN Set(p, [r EXCEPT !.pc = "PAPI_add_events"])
        ELSE IF r.i \in Slots
          THEN LET res == PAPI_event_name_to_code(r.names[r.i])
                   r2 == Call(r, "resolve", res.rv)
               IN Set(p, IF res.rv = "PAPI_OK"
                           THEN [r2 EXCEPT !.tmp = (r.i :> res.code) @@ @,
                                           !.i = @ + 1]
                           ELSE PAPI_complain(r2, res.rv, r.names[r.i],
                                              [r2 EXCEPT !.i = @ + 1]))
        ELSE \E rv \in PapiResults :
               LET r2 == [Call(r, "resolve", rv) EXCEPT
                            !.oob = @ \cup {<<"names", r.i>>, <<"tmp", r.i>>}]
               IN Undefined(p, IF rv = "PAPI_OK"
                                 THEN [r2 EXCEPT !.i = @ + 1]
                                 ELSE PAPI_complain(r2, rv, "garbage",
                                                    [r2 EXCEPT !.i = @ + 1]))
  /\ UNCHANGED <<argv, barrier>>

(* PAPI_add_events(EventSet, tmp, g.n) *)
PAPI_add_events(p) ==
  /\ At(p, "PAPI_add_events")
  /\ \E rv \in PapiResults :
       LET r == [Call(proc[p], "populate", rv) EXCEPT !.added = proc[p].tmp]
       IN Set(p, IF rv = "PAPI_OK"
                   THEN [r EXCEPT !.es = "Populated", !.pc = "PAPI_run"]
                   ELSE PAPI_complain(r, rv, "add events",
                                      [r EXCEPT !.pc = "PAPI_run"]))
  /\ UNCHANGED <<argv, barrier>>

PAPI_run(p) ==
  /\ At(p, "PAPI_run")
  /\ \E rv \in PapiResults :
       LET r == Call(proc[p], "start", rv)
       IN Set(p, IF rv = "PAPI_OK"
                   THEN [r EXCEPT !.es = "Started", !.pc = "PAPI_clear"]
                   ELSE PAPI_complain(r, rv, "start",
                                      [r EXCEPT !.pc = "PAPI_clear"]))
  /\ UNCHANGED <<argv, barrier>>

PAPI_clear(p) ==
  /\ At(p, "PAPI_clear")
  /\ \E rv \in PapiResults :
       LET r == Call(proc[p], "reset", rv)
       IN Set(p, IF rv = "PAPI_OK"
                   THEN [r EXCEPT !.pc = "runops"]
                   ELSE PAPI_complain(r, rv, "reset", [r EXCEPT !.pc = "runops"]))
  /\ UNCHANGED <<argv, barrier>>

(* runops(sz): malloc, then sz increments at random offsets; the result is *)
(* dropped by the caller and the buffer is not passed to free()            *)
runops(r, sz, mem) ==
  IF ~mem
    THEN [r EXCEPT !.err = Append(@, <<"Cannot alloc memory", sz \div 1048576>>),
                   !.allocFailed = TRUE, !.work = Append(@, [sz |-> sz, rv |-> -1])]
    ELSE [r EXCEPT !.bufs = @ + 1,
                   !.out = Append(@, <<"MiB: OK", sz \div 1048576>>),
                   !.work = Append(@, [sz |-> sz, rv |-> 0])]

(* the caller as it would be if it treated a failed runops as fatal *)
Workload_aborts(p) ==
  /\ At(p, "runops")
  /\ \E mem \in BOOLEAN :
       LET r == runops(proc[p], WORKLOAD_BYTES, mem)
       IN Set(p, IF mem THEN [r EXCEPT !.pc = "PAPI_fetch"]
                 ELSE complain(r, EXIT_FAILURE, FALSE, <<"runops failed">>,
                               [r EXCEPT !.pc = "PAPI_fetch"]))
  /\ UNCHANGED <<argv, barrier>>

Workload(p) ==
  /\ At(p, "runops")
  /\ \E mem \in BOOLEAN :
       Set(p, [runops(proc[p], WORKLOAD_BYTES, mem) EXCEPT !.pc = "PAPI_fetch"])
  /\ UNCHANGED <<argv, barrier>>

(* PAPI_read fills value[0 .. n-1] in the order of the events added *)
PAPI_fetch(p) ==
  /\ At(p, "PAPI_fetch")
  /\ \E rv \in PapiResults :
       LET r == Call(proc[p], "read", rv)
       IN Set(p, IF rv = "PAPI_OK"
                   THEN [r EXCEPT !.value = [i \in DOMAIN r.added |->
                                               CounterValue(r.added[i])],
                                  !.pc = "report"]
                   ELSE PAPI_complain(r, rv, "read", [r EXCEPT !.pc = "report"]))
  /\ UNCHANGED <<argv, barrier>>

(* report as it would be in a loop that goes round a second time *)
report_twice(p) ==
  /\ At(p, "report")
  /\ LET r == proc[p]
         lines == [k \in 1 .. r.n |->
                     IF (k - 1) \in Slots /\ (k - 1) \in DOMAIN r.value
                       THEN <<r.names[k - 1], r.value[k - 1]>>
                       ELSE <<"garbage", 0>>]
     IN Set(p, [r EXCEPT !.out = Append(@, <<"report", lines>>),
                         !.reported = TRUE, !.inTime = ~r.expired,
                         !.pc = IF r.reported THEN "PAPI_shutdown" ELSE "PAPI_clear"])
  /\ UNCHANGED <<argv, barrier>>

(* report: one "name: value" line per event, in index order *)
report(p) ==
  /\ At(p, "report")
  /\ LET r == proc[p]
         lines == [k \in 1 .. r.n |->
                     IF (k - 1) \in Slots /\ (k - 1) \in DOMAIN r.value
                       THEN <<r.names[k - 1], r.value[k - 1]>>
                       ELSE <<"garbage", 0>>]
     IN Set(p, [r EXCEPT !.out = Append(@, <<"report", lines>>),
                         !.reported = TRUE, !.inTime = ~r.expired,
                         !.pc = "PAPI_shutdown"])
  /\ UNCHANGED <<argv, barrier>>

PAPI_shutdown(p) ==
  /\ At(p, "PAPI_shutdown")
  /\ Set(p, [Call(proc[p], "shutdown", "PAPI_OK") EXCEPT
               !.es = "ShutDown", !.pc = "MPI_Barrier"])
  /\ UNCHANGED <<argv, barrier>>

(* ------------------------------- teardown ------------------------------ *)

(* the process enters MPI_Barrier(MPI_COMM_WORLD) *)
MPI_Barrier(p) ==
  /\ At(p, "MPI_Barrier")
  /\ Set(p, [proc[p] EXCEPT !.pc = "barrier_wait"])
  /\ barrier' = barrier \cup {p}
  /\ UNCHANGED argv

(* and leaves it once every rank of the job is in *)
BarrierReturn(p) ==
  /\ At(p, "barrier_wait")
  /\ barrier = World
  /\ Set(p, [proc[p] EXCEPT !.passed = TRUE, !.pc = "MPI_Finalize"])
  /\ UNCHANGED <<argv, barrier>>

Teardown(p) ==
  /\ At(p, "MPI_Finalize")
  /\ Set(p, [MPI_Finalize(proc[p]) EXCEPT !.pc = "return"])
  /\ UNCHANGED <<argv, barrier>>

Return(p) ==
  /\ At(p, "return")
  /\ Set(p, exit(proc[p], 0, "main"))
  /\ UNCHANGED <<argv, barrier>>

(* the exit() that ends vcomplain and usage *)
VcomplainExit(p) ==
  /\ At(p, "vcomplain_exit")
  /\ Set(p, exit(proc[p], proc[p].ret, "complain"))
  /\ UNCHANGED <<argv, barrier>>

UsageExit(p) ==
  /\ At(p, "usage_exit")
  /\ Set(p, exit(proc[p], 1, "usage"))
  /\ UNCHANGED <<argv, barrier>>

(* ---------------------------- specifications --------------------------- *)

(* what the program itself does next on rank p *)
Step(p) ==
  \/ MPI_Init(p) \/ MPI_Comm_rank(p) \/ MPI_Comm_size(p) \/ getopt(p)
  \/ positional(p) \/ banner(p) \/ arm(p)
  \/ PAPI_library_init(p) \/ PAPI_thread_init(p) \/ PAPI_create_eventset(p)
  \/ PAPI_prepare(p) \/ PAPI_add_events(p) \/ PAPI_run(p) \/ PAPI_clear(p)
  \/ Workload(p) \/ PAPI_fetch(p) \/ report(p) \/ PAPI_shutdown(p)
  \/ MPI_Barrier(p) \/ BarrierReturn(p) \/ Teardown(p) \/ Return(p)
  \/ VcomplainExit(p) \/ UsageExit(p)

Next == \E p \in Ranks : Step(p) \/ SIGALRM(p)

Spec == Init /\ [][Next]_vars

(* a live process is scheduled, and a pending alarm goes off *)
FairSpec ==
  /\ Spec
  /\ \A p \in Ranks : WF_vars(Step(p)) /\ WF_vars(SIGALRM(p))

(* ------------------------- what the claims read ------------------------ *)

GroupOps == {"create", "populate", "start", "reset", "read", "shutdown"}

(* the counter-group operations rank p has invoked, oldest first *)
GroupCalls(p) == SelectSeq(proc[p].calls, LAMBDA c : c.op \in GroupOps)

OpNames(calls) == [k \in 1 .. Len(calls) |-> calls[k].op]

Called(p, op) == \E k \in 1 .. Len(proc[p].calls) : proc[p].calls[k].op = op

(* the lifecycle create -> populate -> start -> (reset -> read)* -> shutdown *)
Legal(state, op) ==
  CASE op = "create" -> state = "Uncreated"
    [] op = "populate" -> state = "Created"
    [] op = "start" -> state = "Populated"
    [] op = "reset" -> state = "Started"
    [] op = "read" -> state = "Reset"
    [] op = "shutdown" -> state = "Started"
    [] OTHER -> FALSE

Move(state, c) ==
  IF c.rv # "PAPI_OK" THEN state
  ELSE CASE c.op = "create" -> "Created"
         [] c.op = "populate" -> "Populated"
         [] c.op = "start" -> "Started"
         [] c.op = "reset" -> "Reset"
         [] c.op = "read" -> "Started"
         [] c.op = "shutdown" -> "ShutDown"
         [] OTHER -> state

RECURSIVE InOrder(_, _)
InOrder(state, calls) ==
  IF calls = <<>> THEN TRUE
  ELSE Legal(state, Head(calls).op) /\ InOrder(Move(state, Head(calls)), Tail(calls))

(* how a process left *)
Exited(p) == p \in World /\ proc[p].exited

FatalExit(p) == Exited(p) /\ proc[p].path \in {"complain", "usage", "sigalarm"}

(* the call a fatal diagnostic was about *)
LastCall(p) == proc[p].calls[Len(proc[p].calls)]

CounterFailure(p) ==
  /\ Exited(p) /\ proc[p].path = "complain"
  /\ proc[p].calls # <<>> /\ LastCall(p).rv # "PAPI_OK"

(* the pass, resolve through report, against the timeout *)
PassOverran(p) == proc[p].expired /\ ~proc[p].inTime

PassInTime(p) == proc[p].inTime

InPass(p) ==
  /\ p \in World /\ ~proc[p].exited
  /\ proc[p].pc \in {"PAPI_library_init", "PAPI_thread_init", "PAPI_create_eventset",
                     "PAPI_prepare", "PAPI_add_events", "PAPI_run", "PAPI_clear",
                     "runops", "PAPI_fetch", "report"}

(* -------------------------------- claims ------------------------------- *)

(* C1: on every rank the counter-group operations are invoked in the order *)
(* create -> populate -> start -> (reset -> read)* -> shutdown, each only   *)
(* after the one before it has succeeded; populate never follows start.     *)
C1_LifecycleOrder ==
  \A p \in World : InOrder("Uncreated", GroupCalls(p))

C1_Witness ==
  \E p \in World :
    /\ OpNames(GroupCalls(p)) =
         <<"create", "populate", "start", "reset", "read", "shutdown">>
    /\ \A k \in 1 .. 6 : GroupCalls(p)[k].rv = "PAPI_OK"

(* C2: when a counter-subsystem operation fails on one rank of a job of    *)
(* two or more, the fatal path has every rank of the job terminated with   *)
(* exit code 1.                                                            *)
C2_FatalAbortsGroup ==
  \A p \in World :
    (argv.world >= 2 /\ CounterFailure(p))
      => \A q \in World : proc[q].exited /\ proc[q].code = 1

(* C3: when the watchdog has fired on a rank, at whatever stage, the whole *)
(* job is terminated: every rank has stopped.                              *)
C3_WatchdogAbortsGroup ==
  \A p \in World :
    (Exited(p) /\ proc[p].path = "sigalarm") => \A q \in World : proc[q].exited

(* C4: once a rank has left through a fatal path, a peer that is waiting   *)
(* in the final barrier eventually leaves the barrier or terminates,       *)
(* whatever the accepted timeout.                                          *)
C4_NoPeerWaitsForever ==
  \A p \in Ranks : \A q \in Ranks :
    (FatalExit(p) /\ q \in World /\ ~proc[q].exited /\ proc[q].pc = "barrier_wait")
      ~> (proc[q].exited \/ proc[q].pc # "barrier_wait")

(* C5, as stated: a pass that outlasts the timeout ends in exit code 1     *)
(* without a report; a pass done strictly before the timeout ends in a     *)
(* report and exit code 0.                                                 *)
C5_AsStated ==
  \A p \in World :
    (proc[p].exited /\ proc[p].handler) =>
      /\ PassOverran(p) => (proc[p].code = 1 /\ ~proc[p].reported)
      /\ PassInTime(p) => (proc[p].reported /\ proc[p].code = 0)

(* C5, amended: with a positive timeout a pass that outlasts it ends in    *)
(* exit code 1 from the watchdog, without a report; a pass done strictly   *)
(* before the timeout has its report, and the exit code is 0 unless the    *)
(* watchdog fires before main returns (in the barrier or the teardown),    *)
(* when it is 1; with timeout 0 no watchdog ever fires.                    *)
C5_WatchdogOutcome ==
  \A p \in World :
    (proc[p].exited /\ proc[p].handler) =>
      /\ (proc[p].timeout > 0 /\ PassOverran(p))
           => (proc[p].code = 1 /\ ~proc[p].reported /\ proc[p].path = "sigalarm")
      /\ PassInTime(p)
           => /\ proc[p].reported
              /\ proc[p].path \in {"main", "sigalarm"}
              /\ proc[p].code = (IF proc[p].path = "main" THEN 0 ELSE 1)
      /\ proc[p].timeout = 0 => proc[p].path # "sigalarm"

C5_Witness ==
  \E p \in World :
    /\ proc[p].exited /\ PassInTime(p) /\ proc[p].reported
    /\ proc[p].path = "sigalarm" /\ proc[p].code = 1

(* C6: no process has finalized and exited while a peer is still in its    *)
(* measurement pass or emitting its report.                                *)
C6_BarrierRendezvous ==
  \A p \in World : \A q \in World :
    (proc[p].exited /\ proc[p].fin > 0) => ~InPass(q)

(* C7: the event count stays within 1 .. 16 once the defaults are set, and *)
(* no store to names[] or to the handle array goes past index 15.          *)
C7_EventCountBounded ==
  \A p \in World :
    /\ proc[p].n <= MAX_EVENTS
    /\ proc[p].oob = {}
    /\ (proc[p].pc \notin {"MPI_Init", "MPI_Comm_rank", "MPI_Comm_size",
                           "vcomplain_exit", "exited"} => proc[p].n >= 1)

(* C8: a failed workload allocation is printed and nothing more: the       *)
(* process goes on to the read, it is not finalized by the failure, the    *)
(* only fatal diagnostic that can follow is about the read, and unless the *)
(* read fails or the watchdog fires it reports, shuts down, passes the     *)
(* barrier and exits 0.                                                    *)
C8_AllocFailureIsLocal ==
  \A p \in World :
    proc[p].allocFailed =>
      /\ \E k \in 1 .. Len(proc[p].err) : proc[p].err[k][1] = "Cannot alloc memory"
      /\ proc[p].pc \in {"PAPI_fetch", "report", "PAPI_shutdown", "MPI_Barrier",
                         "barrier_wait", "MPI_Finalize", "return",
                         "vcomplain_exit", "exited"}
      /\ proc[p].pc = "PAPI_fetch" => proc[p].fin = 0
      /\ (proc[p].pc = "vcomplain_exit" \/ (proc[p].exited /\ proc[p].path = "complain"))
           => (LastCall(p).op = "read" /\ LastCall(p).rv # "PAPI_OK")
      /\ (proc[p].exited /\ proc[p].path \notin {"complain", "sigalarm"})
           => /\ proc[p].code = 0 /\ proc[p].reported /\ proc[p].passed
              /\ OpNames(GroupCalls(p)) =
                   <<"create", "populate", "start", "reset", "read", "shutdown">>

C8_Witness ==
  \E p \in World :
    /\ proc[p].allocFailed /\ proc[p].exited /\ proc[p].code = 0
    /\ proc[p].reported /\ proc[p].passed /\ Called(p, "shutdown")

(* C9: after any call of the workload runner no workload buffer is live.   *)
C9_NoLiveBuffer ==
  \A p \in World : proc[p].work # <<>> => proc[p].bufs = 0

(* C10: a process that began the pass has invoked the counter-subsystem    *)
(* shutdown by the time it has exited.                                     *)
C10_ShutdownBeforeExit ==
  \A p \in World :
    (proc[p].exited /\ proc[p].calls # <<>>) => Called(p, "shutdown")

(* the event names of the run: the positional arguments, else the defaults *)
EventList == IF argv.pos = <<>> THEN DefaultNames ELSE argv.pos

Recognized(name) == name \in DOMAIN PresetCode

AllRecognized == \A k \in 1 .. Len(EventList) : Recognized(EventList[k])

(* index, from 0, of the first name the counter library does not know *)
FirstBad ==
  CHOOSE k \in 0 .. (Len(EventList) - 1) :
    /\ ~Recognized(EventList[k + 1])
    /\ \A j \in 1 .. k : Recognized(EventList[j])

ListInScope == Len(EventList) \in 1 .. MAX_EVENTS

Populated(p) ==
  \E k \in 1 .. Len(proc[p].calls) :
    proc[p].calls[k] = [op |-> "populate", rv |-> "PAPI_OK"]

(* C11, as stated: for a list of 1 to 16 names, resolve followed by        *)
(* populate succeeds exactly when every name is recognized; with an        *)
(* unrecognized name nothing is populated, started or reported and a rank  *)
(* that has exited has exit code 1.                                       *)
C11_AsStated ==
  \A p \in World :
    ListInScope =>
      /\ Called(p, "populate") => (Populated(p) <=> AllRecognized)
      /\ ~AllRecognized =>
           /\ ~Called(p, "populate") /\ ~Called(p, "start") /\ ~proc[p].reported
           /\ proc[p].exited => proc[p].code = 1

(* C11, amended: for a list of 1 to 16 names populate succeeds only if     *)
(* every name is recognized (the library may still reject a list of        *)
(* recognized names); with an unrecognized name no rank populates, starts  *)
(* or reports, a rank that gets as far as resolving leaves at the first    *)
(* such name, and every rank ends with exit code 1.                        *)
C11_Safe ==
  \A p \in World :
    ListInScope =>
      /\ Populated(p) => AllRecognized
      /\ ~AllRecognized =>
           /\ ~Called(p, "populate") /\ ~Called(p, "start") /\ ~proc[p].reported
           /\ proc[p].exited => proc[p].code = 1
           /\ (proc[p].calls # <<>> /\ LastCall(p).op = "resolve")
                => (proc[p].i <= FirstBad /\ Cardinality(DOMAIN proc[p].tmp) <= FirstBad)
           /\ (proc[p].calls # <<>> /\ LastCall(p) = [op |-> "resolve", rv |-> "PAPI_ENOEVNT"])
                => /\ proc[p].i = FirstBad
                   /\ proc[p].pc \in {"vcomplain_exit", "exited"}
                   /\ proc[p].err[Len(proc[p].err)] \in
                        {<<"PAPI", EventList[FirstBad + 1], "PAPI_ENOEVNT">>,
                         <<"SIGALRM detected", "Alarm clock">>}

C11_ResolveThenPopulate ==
  /\ []C11_Safe
  /\ (ListInScope /\ ~AllRecognized)
       ~> (\A p \in World : proc[p].exited /\ proc[p].code = 1)

C11_Witness ==
  \E p \in World :
    /\ argv.world = 2 /\ \A q \in World : proc[q].exited /\ proc[q].code = 1
    /\ ~AllRecognized /\ FirstBad = 1
    /\ proc[p].i = 1 /\ DOMAIN proc[p].tmp = {0}
    /\ proc[p].path = "complain"
    /\ LastCall(p) = [op |-> "resolve", rv |-> "PAPI_ENOEVNT"]

(* the report block rank p printed, as a sequence of <<name, value>> lines *)
ReportLines(p) ==
  LET blocks == SelectSeq(proc[p].out, LAMBDA l : l[1] = "report")
  IN blocks[1][2]

(* the lines an order-preserving report of the run's event list holds *)
ExpectedLines ==
  [k \in 1 .. Len(EventList) |->
     <<EventList[k], CounterValue(PresetCode[EventList[k]])>>]

OrderPreserved(p) ==
  /\ Populated(p) =>
       /\ DOMAIN proc[p].added = 0 .. (Len(EventList) - 1)
       /\ \A i \in DOMAIN proc[p].added :
            proc[p].added[i] = PresetCode[EventList[i + 1]]
  /\ proc[p].reported => ReportLines(p) = ExpectedLines

(* C12: the report holds exactly n name:value lines, line i pairing name i *)
(* of the event list with counter value i, and the handle given to         *)
(* populate at index i is the one resolved from name i.                    *)
C12_OrderPreserved ==
  \A p \in World : OrderPreserved(p)

(* the same for the lists names[] can hold, 1 to 16 names *)
C12_WithinArray ==
  \A p \in World : ListInScope => OrderPreserved(p)

(* the command line gives -t a negative number, after options getopt takes *)
NegativeTimeout ==
  \E k \in 1 .. Len(argv.opts) :
    /\ argv.opts[k].ch = "t" /\ argv.opts[k].arg < 0
    /\ \A j \in 1 .. (k - 1) : argv.opts[j].ch = "t" /\ argv.opts[j].arg >= 0

UsageText(p) == SelectSeq(proc[p].err, LAMBDA l : l[1] = "usage")

(* C13: with a negative -t a process ends in usage with exit code 1; it    *)
(* never arms the watchdog, makes no counter-group call, prints no banner  *)
(* and no report, and the usage text is printed by rank 0 alone.           *)
C13_NegativeTimeoutIsUsageError ==
  NegativeTimeout =>
    \A p \in World :
      /\ proc[p].pc \in {"MPI_Init", "MPI_Comm_rank", "MPI_Comm_size", "getopt",
                         "usage_exit", "vcomplain_exit", "exited"}
      /\ proc[p].exited => proc[p].code = 1 /\ proc[p].path \in {"usage", "complain"}
      /\ proc[p].pc = "vcomplain_exit" \/ proc[p].path = "complain"
           => proc[p].optind = 1
      /\ ~proc[p].handler /\ proc[p].alarm = "none"
      /\ proc[p].calls = <<>> /\ proc[p].out = <<>> /\ ~proc[p].reported
      /\ UsageText(p) # <<>> => proc[p].myrank = 0 /\ p = 0
      /\ proc[p].pc = "usage_exit" \/ proc[p].path = "usage"
           => /\ proc[p].fin = 1
              /\ UsageText(p) = IF p = 0 THEN <<<<"usage", "bad timeout">>>> ELSE <<>>

(* both ranks of a job given -t -5 have left through usage *)
C13_Witness ==
  /\ NegativeTimeout /\ argv.world = 2
  /\ \A p \in World : proc[p].exited /\ proc[p].path = "usage" /\ proc[p].code = 1
  /\ UsageText(0) # <<>> /\ proc[1].err = <<>>

(* how often rank p has invoked op, run the workload, printed a report *)
Count(p, op) == Len(SelectSeq(proc[p].calls, LAMBDA c : c.op = op))

Reports(p) == Len(SelectSeq(proc[p].out, LAMBDA l : l[1] = "report"))

Succeeded(p, op) ==
  \E k \in 1 .. Len(proc[p].calls) :
    proc[p].calls[k].op = op /\ proc[p].calls[k].rv = "PAPI_OK"

(* C14: a process that ends with exit code 0 has done create, populate and *)
(* start once each, then one cycle reset, workload of 1,048,576 bytes,     *)
(* read, report, then one shutdown; and no process ever does more.         *)
C14_SinglePass ==
  \A p \in World :
    /\ \A op \in GroupOps : Count(p, op) <= 1
    /\ Len(proc[p].work) <= 1 /\ Reports(p) <= 1
    /\ proc[p].work # <<>> => Succeeded(p, "reset")
    /\ Called(p, "read") => Len(proc[p].work) = 1
    /\ Reports(p) = 1 => Succeeded(p, "read")
    /\ Called(p, "shutdown") => Reports(p) = 1
    /\ proc[p].exited /\ proc[p].code = 0 =>
         /\ OpNames(GroupCalls(p)) =
              <<"create", "populate", "start", "reset", "read", "shutdown">>
         /\ \A k \in 1 .. Len(proc[p].calls) : proc[p].calls[k].rv = "PAPI_OK"
         /\ Len(proc[p].work) = 1 /\ proc[p].work[1].sz = WORKLOAD_BYTES
         /\ Reports(p) = 1

(* both ranks of a job have ended with exit code 0 *)
C14_Witness ==
  /\ argv.world = 2
  /\ \A p \in World : proc[p].exited /\ proc[p].code = 0 /\ Reports(p) = 1

(* rank p is past signal() and alarm() and still running *)
Armed(p) == proc[p].handler /\ ~proc[p].exited

(* no alarm is scheduled on a rank that already got past alarm() *)
NoRearm ==
  \A p \in World :
    proc[p].handler /\ proc[p].alarm # "pending" => proc'[p].alarm # "pending"

(* C15 as stated: for every accepted timeout, 0 too, the alarm is set once *)
(* before the first counter call and is pending until it fires or the      *)
(* process exits.                                                          *)
C15_AsStated ==
  \A p \in World :
    /\ proc[p].calls # <<>> => proc[p].handler
    /\ Armed(p) => proc[p].alarm = "pending"

C15_Safe ==
  \A p \in World :
    /\ proc[p].calls # <<>> => proc[p].handler
    /\ proc[p].handler => proc[p].timeout >= 0 /\ proc[p].pc # "getopt"
    /\ Armed(p) /\ proc[p].timeout > 0 => proc[p].alarm = "pending"
    /\ proc[p].timeout = 0 \/ ~proc[p].handler => proc[p].alarm = "none"
    /\ proc[p].alarm = "fired" => proc[p].exited /\ proc[p].path = "sigalarm"

(* C15: after parsing, the handler is installed and alarm(timeout) called  *)
(* once, before the first counter call.  With a timeout above 0 the alarm  *)
(* is pending from then on, through the pass and the barrier, until it     *)
(* fires or the process exits; with timeout 0 no alarm is ever pending.    *)
C15_WatchdogArmedOnce == []C15_Safe /\ [][NoRearm]_vars

(* a rank with a positive timeout is back from the barrier, alarm pending *)
C15_Witness ==
  \E p \in World :
    /\ Armed(p) /\ proc[p].timeout > 0 /\ proc[p].passed
    /\ proc[p].alarm = "pending"

(* C16: a process that leaves through complain, usage or the watchdog      *)
(* handler has called MPI_Finalize before its exit, and exits with code 1; *)
(* no process has exit code 1 without an earlier MPI_Finalize.             *)
C16_FinalizeBeforeFatalExit ==
  \A p \in World :
    /\ proc[p].pc \in {"vcomplain_exit", "usage_exit"} => proc[p].fin >= 1
    /\ FatalExit(p) => proc[p].fin >= 1 /\ proc[p].code = 1
    /\ proc[p].exited /\ proc[p].code = 1 => FatalExit(p) /\ proc[p].fin >= 1

(* one rank left through the watchdog handler, the other through complain *)
C16_Witness ==
  /\ argv.world = 2
  /\ proc[0].exited /\ proc[0].path = "sigalarm" /\ proc[0].fin = 1
  /\ proc[1].exited /\ proc[1].path = "complain" /\ proc[1].fin = 1

Banners(p) == SelectSeq(proc[p].out, LAMBDA l : l[1] = "banner")

(* the diagnostics of failed counter calls on rank p's stderr *)
CounterDiagnostics(p) ==
  SelectSeq(proc[p].err, LAMBDA l : l[1] \in {"PAPI", "PAPI Init failed"})

FailedCalls(p) == SelectSeq(proc[p].calls, LAMBDA c : c.rv # "PAPI_OK")

(* C17: the banner and the usage text are printed by rank 0 alone, and     *)
(* rank 0 does print them; the diagnostic of a failed counter call is      *)
(* printed by every rank on which the call failed, whatever its rank.      *)
C17_DiagnosticGating ==
  \A p \in World :
    /\ Banners(p) # <<>> \/ UsageText(p) # <<>> => p = 0 /\ proc[p].myrank = 0
    /\ p = 0 /\ proc[p].handler => Len(Banners(p)) = 1
    /\ p = 0 /\ (proc[p].pc = "usage_exit" \/ proc[p].path = "usage")
         => Len(UsageText(p)) = 1
    /\ Len(CounterDiagnostics(p)) = Len(FailedCalls(p))
    /\ Len(FailedCalls(p)) <= 1

(* a counter call failed on rank 1, which printed the diagnostic; rank 0   *)
(* printed the banner                                                      *)
C17_Witness ==
  /\ argv.world = 2
  /\ CounterFailure(1) /\ Len(CounterDiagnostics(1)) = 1 /\ Banners(1) = <<>>
  /\ Len(Banners(0)) = 1

(* C18: no process calls MPI_Finalize more than once, on any execution,    *)
(* a watchdog delivered between MPI_Finalize and exit included.            *)
C18_FinalizedAtMostOnce ==
  \A p \in World : proc[p].fin <= 1

(* C19: a process that has printed its report and is back from the final   *)
(* barrier is out of the watchdog's reach: the handler does not run during *)
(* teardown and the process ends with exit code 0.                         *)
C19_TeardownOutOfReach ==
  \A p \in World :
    proc[p].reported /\ proc[p].passed =>
      /\ proc[p].alarm # "fired"
      /\ proc[p].exited => proc[p].code = 0 /\ proc[p].path = "main"

(* the calls rank p made before its populate *)
BeforePopulate(p) ==
  LET k == CHOOSE k \in 1 .. Len(proc[p].calls) : proc[p].calls[k].op = "populate"
  IN SubSeq(proc[p].calls, 1, k - 1)

(* every one of the n handles given to populate is an element of tmp that  *)
(* a successful resolve of the name at its index stored; a failed resolve  *)
(* is the last call its process makes                                      *)
ResolvedHandles(p) ==
  /\ Called(p, "populate") =>
       /\ \A i \in 0 .. (proc[p].n - 1) :
            /\ i \in DOMAIN proc[p].added
            /\ PAPI_event_name_to_code(proc[p].names[i]) =
                 [rv |-> "PAPI_OK", code |-> proc[p].added[i]]
       /\ Len(SelectSeq(BeforePopulate(p),
                        LAMBDA c : c.op = "resolve" /\ c.rv = "PAPI_OK")) = proc[p].n
  /\ \A k \in 1 .. Len(proc[p].calls) :
       proc[p].calls[k].op = "resolve" /\ proc[p].calls[k].rv # "PAPI_OK"
         => k = Len(proc[p].calls)

(* C20: populate is invoked only with a handle array whose n entries were  *)
(* each produced by a successful resolve; a failed resolve never returns.  *)
C20_PopulateGetsResolvedHandles ==
  \A p \in World : ResolvedHandles(p)

(* the same for the lists names[] can hold, 1 to 16 names *)
C20_WithinArray ==
  \A p \in World : ListInScope => ResolvedHandles(p)

====
